---- MODULE Spec2Model ----
(***************************************************************************)
(* The issue lifecycle orchestrator of claude-code-bot:                    *)
(*   - LinearPollingService (src/src/polling_service.py): the poll loop,   *)
(*     the in-memory processed / in-progress sets and the state file;      *)
(*   - process_issue (src/src/issue_processor.py): the per-ticket workflow *)
(*     run under the module-level asyncio.Semaphore(1);                    *)
(*   - signal_handler / run_polling_service (src/src/main.py): process     *)
(*     exit and construction of a fresh service from the state file.       *)
(* Collaborators (Linear, git, docker, GitHub, LLM) are the environment:   *)
(* every call is recorded in the run's trace and returns or raises         *)
(* nondeterministically, as their code allows.                             *)
(***************************************************************************)
EXTENDS Integers, Sequences, FiniteSets

\* ---------------------------------------------------------------- bounds
\* Ticket ids the tracker knows: 1..NumTickets.
NumTickets == 2
\* Longest candidate list one fetch returns.
MaxFetch == 2
\* Coroutines other than the poll loop that call process_issue (SpecCallers).
NumExtCallers == 2

\* Latest time on the clock, in days (SpecLookback).
MaxTime == 2
\* Largest configured lookback, in days (SpecLookback).
MaxLookbackDays == 1
\* POLL_LOOKBACK_DAYS when the environment does not set it.
DefaultLookbackDays == 7

\* Most commits the origin's main gains (SpecGit).
MaxMainCommits == 1
\* Most commits made on one work branch (SpecGit).
MaxBranchCommits == 1

Ids == 1..NumTickets
\* Task 0 is the poll loop's own call of process_issue.
PollTask == 0
ExtTasks == 1..NumExtCallers
Tasks == {PollTask} \cup ExtTasks

\* issue["state"]["name"] values a fetched candidate may carry.
StatusNames == {"Todo", "In Progress"}

VARIABLES
    poll_pc,             \* position of the poll loop coroutine
    running,             \* self.running
    processed_issues,    \* self.processed_issues
    in_progress_issues,  \* self.in_progress_issues
    new_issues,          \* the part of new_issues the for loop has not reached
    issue_id,            \* the for loop's issue_id (0: none yet)
    file,                \* the state file on disk
    semaphore,           \* value of the module-level asyncio.Semaphore
    wf,                  \* per task: the process_issue coroutine's frame
    last_fetch,          \* history: the last fetch, as the filter saw it
    failed,              \* history: ids whose latest run a collaborator's exception ended
    loaded_in_progress,  \* history: in_progress_issues as _load_state set it
    POLL_LOOKBACK_DAYS,  \* config.POLL_LOOKBACK_DAYS
    now,                 \* datetime.now(), in days
    start_time,          \* self.start_time
    last_query,          \* history: the last get_issues_by_label call
    faults,              \* whether a save may fail or be cut short (SpecStore)
    last_save,           \* history: how this process's latest _save_state ended
    repo                 \* the working-directory checkout and its origin (SpecGit)

\* What no step of the poll loop assigns: its configuration, the clock, what
\* the file system and the operator may do to a save, and the checkout, whose
\* content is followed in SpecGit alone.
envVars == <<POLL_LOOKBACK_DAYS, now, faults, repo>>

vars == <<poll_pc, running, processed_issues, in_progress_issues, new_issues,
          issue_id, file, semaphore, wf, last_fetch, failed, loaded_in_progress,
          POLL_LOOKBACK_DAYS, now, start_time, last_query, faults, last_save, repo>>

pollVars == <<poll_pc, running, processed_issues, in_progress_issues, new_issues,
              issue_id, file, last_fetch, loaded_in_progress,
              POLL_LOOKBACK_DAYS, now, start_time, last_query, faults, last_save, repo>>

\* ------------------------------------------------------------ state file
\* The state file: exists = FALSE is the absent file; doc says what a reader
\* finds in an existing one, and the two lists are those of the document.
\*   "snapshot"         the complete JSON document of _save_state
\*   "truncated"        nothing, or the beginning of a document (invalid JSON)
\*   "unreadable"       open(..., "r") raises
\*   "not_object"       valid JSON that is no object (data.get raises)
\*   "bad_processed"    an object whose processed_issues is no list of ids
\*   "bad_in_progress"  an object whose in_progress_issues is no list of ids
AbsentFile ==
    [exists |-> FALSE, doc |-> "snapshot", processed_issues |-> {},
     in_progress_issues |-> {}]

\* _save_state: the whole of both sets, overwriting what was there.
SaveState(processed, in_progress) ==
    [exists |-> TRUE, doc |-> "snapshot", processed_issues |-> processed,
     in_progress_issues |-> in_progress]

\* A file that is no snapshot; only bad_in_progress carries a list that
\* _load_state gets to read.
Damaged(doc, processed) ==
    [exists |-> TRUE, doc |-> doc, processed_issues |-> processed,
     in_progress_issues |-> {}]

\* The files _load_state may find that _save_state did not write.
DamagedFiles ==
    {Damaged(doc, {}) : doc \in {"truncated", "unreadable", "not_object", "bad_processed"}}
      \cup {Damaged("bad_in_progress", processed) : processed \in SUBSET Ids}

\* Faulty variant: _load_state reads only the processed list.
LoadInProgress_Forgotten(f) == {}

\* _load_state: both sets start empty; the try block assigns processed_issues,
\* then in_progress_issues, and whatever raises in it is caught and logged.
LoadFails(f) == f.exists /\ f.doc # "snapshot"
LoadProcessed(f) ==
    IF f.exists /\ f.doc \in {"snapshot", "bad_in_progress"}
    THEN f.processed_issues ELSE {}
LoadInProgress(f) ==
    IF f.exists /\ f.doc = "snapshot" THEN f.in_progress_issues ELSE {}

\* How one call of _save_state may end.
\*   "saved"         the document is written
\*   "open_raised"   open(..., "w") raises: the file is as it was
\*   "write_raised"  json.dump or the close raises after the file was truncated
\*   "killed"        the process is ended inside json.dump (a signal's
\*                   sys.exit, a kill): the file keeps what was written so far
SaveOutcomes(faulty) ==
    IF faulty THEN {"saved", "open_raised", "write_raised", "killed"} ELSE {"saved"}

\* open(..., "w") empties the file, json.dump then writes the document.
FileAfterSave(f, processed, in_progress, outcome) ==
    CASE outcome = "saved" -> SaveState(processed, in_progress)
      [] outcome = "open_raised" -> f
      [] OTHER -> Damaged("truncated", {})

\* What the latest _save_state of the process did: "saved", or "raised" when
\* it logged "Error saving state file"; "none" before the first save.
SaveLogged(outcome) == IF outcome = "saved" THEN "saved" ELSE "raised"

\* Faulty variant: an error inside _save_state reaches its caller.
SaveRaises_Uncaught(outcome) == outcome \in {"open_raised", "write_raised"}

\* _save_state's except Exception logs the error; nothing reaches the caller.
SaveRaises(outcome) == FALSE

\* ------------------------------------------------------- process_issue frame
\* One collaborator call of a run: the function, what identifies its argument
\* (comment body, status name) and how it ended ("raise": it raised).
Call(fn, arg, ret) == [fn |-> fn, arg |-> arg, ret |-> ret]

\* Strings the code takes apart or builds are sequences of characters.
\* issue["branchName"] when the tracker suggests no branch name (None or "").
NoBranchName == << >>

\* A branch name the tracker suggests.
SuggestedBranchName == <<"f", "i", "x">>

\* issue["identifier"]: team key, dash, number.
Digits == <<"1", "2", "3", "4", "5", "6", "7", "8", "9">>
Identifier(id) == <<"T", "-", Digits[id]>>

\* str.lower()
UpperCase ==
    <<"A", "B", "C", "D", "E", "F", "G", "H", "I", "J", "K", "L", "M",
      "N", "O", "P", "Q", "R", "S", "T", "U", "V", "W", "X", "Y", "Z">>
LowerCase ==
    <<"a", "b", "c", "d", "e", "f", "g", "h", "i", "j", "k", "l", "m",
      "n", "o", "p", "q", "r", "s", "t", "u", "v", "w", "x", "y", "z">>
LowerChar(ch) ==
    IF \E k \in DOMAIN UpperCase : UpperCase[k] = ch
    THEN LowerCase[CHOOSE k \in DOMAIN UpperCase : UpperCase[k] = ch]
    ELSE ch
Lower(str) == [k \in DOMAIN str |-> LowerChar(str[k])]

\* Faulty variant: the identifier goes into the branch name as it is.
BranchName_AsIs(branchName, identifier) ==
    IF branchName # NoBranchName THEN branchName ELSE <<"a", "i", "/">> \o identifier

\* branch_name = issue["branchName"] or f"ai/{issue['identifier'].lower()}"
BranchName(branchName, identifier) ==
    IF branchName # NoBranchName THEN branchName
    ELSE <<"a", "i", "/">> \o Lower(identifier)

\* A process_issue coroutine: where it stands, its issue_id, the calls made so
\* far, issue["description"] or "", issue["branchName"], the content the
\* evaluation call got from the LLM ("" before), the reasoning evaluate_result
\* returned, the content the draft call got from the LLM, the commit message
\* generate_pr_content returned, str(e) of the exception caught ("" if none)
\* and whether the call ended by raising into its caller.
IdleFrame ==
    [pc |-> "idle", issue |-> 0, calls |-> << >>, description |-> "",
     branchName |-> NoBranchName, response |-> "", reasoning |-> "", draft |-> "",
     commit_message |-> "", error |-> "", raised |-> FALSE]

\* What _call_llm gives the evaluation: a JSON object with success true or
\* false and a reasoning, text that is not JSON, an object without "success",
\* an object without "reasoning", JSON that is not an object, or an exception
\* of the API call.
Responses == {"yes", "no", "not_json", "no_success", "no_reasoning", "not_object"}
LlmOutcomes == Responses \cup {"api_error"}

\* json.loads raises JSONDecodeError, or evaluation[...] raises KeyError.
Malformed(response) == response \in {"not_json", "no_success", "no_reasoning"}

ParseErrorMessage == "Error evaluating result"

\* What _call_llm gives the draft call: a JSON object with commit_message and
\* pr_description, text that is not JSON, an object without one of the two
\* fields, JSON that is not an object, or an exception of the API call.
Drafts == {"draft", "not_json", "no_commit_message", "no_pr_description", "not_object"}
DraftOutcomes == Drafts \cup {"api_error"}

\* json.loads raises JSONDecodeError, or pr_content[...] raises KeyError.
MalformedDraft(draft) == draft \in {"not_json", "no_commit_message", "no_pr_description"}

DefaultCommitMessage == "AI-generated changes"

\* LLMService.generate_pr_content: (commit_message, pr_description) of the
\* parsed object; JSONDecodeError and KeyError are caught and the two default
\* texts returned; anything else raised goes to the caller.
GeneratePrContent(draft) ==
    CASE draft = "draft" -> [ret |-> "ok", commit_message |-> "commit_message"]
      [] MalformedDraft(draft) -> [ret |-> "ok", commit_message |-> DefaultCommitMessage]
      [] OTHER -> [ret |-> "raise", commit_message |-> ""]

\* Faulty variant: no except clause around the parsing.
EvaluateResult_Unguarded(response) ==
    CASE response = "yes" -> [ret |-> "True", reasoning |-> "reasoning"]
      [] response = "no" -> [ret |-> "False", reasoning |-> "reasoning"]
      [] OTHER -> [ret |-> "raise", reasoning |-> ""]

\* LLMService.evaluate_result: (success, reasoning) of the parsed object;
\* JSONDecodeError and KeyError are caught and returned as (False, "Error
\* evaluating result: ..."); anything else raised goes to the caller (the
\* API call's exception, the TypeError of subscripting a list or a number).
EvaluateResult(response) ==
    CASE response = "yes" -> [ret |-> "True", reasoning |-> "reasoning"]
      [] response = "no" -> [ret |-> "False", reasoning |-> "reasoning"]
      [] Malformed(response) -> [ret |-> "False", reasoning |-> ParseErrorMessage]
      [] OTHER -> [ret |-> "raise", reasoning |-> ""]

\* The values comment_body interpolates, per comment of process_issue.
CommentFields(body) ==
    CASE body = "pr_link" -> {"html_url", "pr_description", "reasoning"}
      [] body = "pr_failed" -> {"branch_name"}
      [] body = "unsuccessful" -> {"reasoning", "result"}
      [] body = "error" -> {"error"}
      [] OTHER -> {}

\* comment_body of each create_comment site.
CommentBody(site) ==
    CASE site = "comment_initial" -> "initial"
      [] site = "comment_no_changes" -> "no_changes"
      [] site = "comment_pr" -> "pr_link"
      [] site = "comment_pr_failed" -> "pr_failed"
      [] site = "comment_no_commit" -> "no_commit"
      [] site = "comment_unsuccessful" -> "unsuccessful"
      [] site = "comment_error" -> "error"

CommentSites ==
    {"comment_initial", "comment_no_changes", "comment_pr", "comment_pr_failed",
     "comment_no_commit", "comment_unsuccessful", "comment_error"}

\* The statement after each create_comment that returned.
AfterComment(site) ==
    CASE site = "comment_initial" -> "status_in_progress"
      [] site = "comment_no_changes" -> "status_todo_nochange"
      [] site = "comment_pr" -> "status_ready"
      [] site = "comment_unsuccessful" -> "status_todo_failed"
      [] OTHER -> "release"

\* status_name of each get_status_id_by_name site.
StatusName(site) ==
    CASE site \in {"status_in_progress", "update_in_progress"} -> "In Progress"
      [] site \in {"status_ready", "update_ready"} -> "Ready for Review"
      [] OTHER -> "Todo"

StatusSites ==
    {"status_in_progress", "status_todo_nochange", "status_ready", "status_todo_failed"}

UpdateSites ==
    {"update_in_progress", "update_todo_nochange", "update_ready", "update_todo_failed"}

\* Faulty variant: an empty description is formatted like any other.
CheckDescription_Ignored(description) == "format_issue_description"

\* original_description == "" raises; otherwise the description is formatted.
CheckDescription(description) ==
    IF description = "" THEN "raise_empty" ELSE "format_issue_description"

\* The statement after update_issue_status, or after it was skipped.
AfterUpdate(site, description) ==
    IF site \in {"status_in_progress", "update_in_progress"}
    THEN CheckDescription(description)
    ELSE "release"

\* Faulty variant: update_issue_status is called with whatever was resolved.
AfterStatus_Unchecked(site, ret, description) ==
    CASE site = "status_in_progress" -> "update_in_progress"
      [] site = "status_todo_nochange" -> "update_todo_nochange"
      [] site = "status_ready" -> "update_ready"
      [] site = "status_todo_failed" -> "update_todo_failed"

\* if <status id>: update_issue_status(...); a None id skips the update.
AfterStatus(site, ret, description) ==
    IF ret = "None" THEN AfterUpdate(site, description)
    ELSE CASE site = "status_in_progress" -> "update_in_progress"
           [] site = "status_todo_nochange" -> "update_todo_nochange"
           [] site = "status_ready" -> "update_ready"
           [] site = "status_todo_failed" -> "update_todo_failed"

\* Faulty variant: the empty list of modified files is evaluated like any other.
AfterModifiedFiles_NoCheck(ret) == "evaluate_result"

\* if len(modified_files) == 0: comment, status back to Todo, return.
AfterModifiedFiles(ret) ==
    IF ret = "empty" THEN "comment_no_changes" ELSE "evaluate_result"

\* Faulty variant: a failed evaluation is published all the same.
AfterEvaluate_Ignored(ret) == "generate_pr_content"

\* if success: ... else: failure comment.
AfterEvaluate(ret) ==
    IF ret = "True" THEN "generate_pr_content" ELSE "comment_unsuccessful"

\* Faulty variant: the branch is pushed whether or not anything was committed.
AfterCommit_AlwaysPush(ret) == "push_branch"

\* if commit_success: push and open the pull request; else the no-commit comment.
AfterCommit(ret) ==
    IF ret = "True" THEN "push_branch" ELSE "comment_no_commit"

\* Faulty variant: the link comment is posted whatever create_pull_request
\* returned.
AfterPullRequest_AlwaysLink(ret) == "comment_pr"

\* if pr_data: link comment; else the PR-creation-failed comment.
AfterPullRequest(ret) ==
    IF ret = "None" THEN "comment_pr_failed" ELSE "comment_pr"

\* except Exception as e: the handler logs, comments and does not re-raise.
Propagates(error) == FALSE

\* Faulty variant: a call that raises does not end the try block.
Advance_NoAbort(f, call, target) ==
    LET g == [f EXCEPT !.calls = Append(@, call)]
    IN  IF target = "raise_empty"
        THEN [g EXCEPT !.pc = "comment_error", !.error = "Issue description is empty"]
        ELSE [g EXCEPT !.pc = target]

\* The frame after a call made inside the try block: a raise, or the empty
\* description, enters the except handler; otherwise control moves to target.
Advance(f, call, target) ==
    LET g == [f EXCEPT !.calls = Append(@, call)]
    IN  IF call.ret = "raise"
        THEN [g EXCEPT !.pc = "comment_error", !.error = call.fn]
        ELSE IF target = "raise_empty"
        THEN [g EXCEPT !.pc = "comment_error", !.error = "Issue description is empty"]
        ELSE [g EXCEPT !.pc = target]

\* No fetch yet in this process.
NoFetch == [todo |-> {}, kept |-> {}, in_progress |-> {}]

\* ------------------------------------------------------------ the checkout
\* The main line is a count of commits; a work branch is named by its
\* ticket's id, head 0 is the main branch.
\*   origin    the main branch of the remote
\*   main      the local main branch, as last pulled
\*   branches  per name: whether the local branch exists, the main commit it
\*             was created on and the commits made on it since
\*   head      the branch checked out
\*   dirty     git status --porcelain prints something
\*   prepared  create_and_checkout_branch has just returned
NoBranch == [exists |-> FALSE, base |-> 0, commits |-> 0]

\* ensure_repo_cloned has cloned the repository: main as the origin has it.
ClonedRepo ==
    [origin |-> 0, main |-> 0, branches |-> [b \in Ids |-> NoBranch], head |-> 0,
     dirty |-> FALSE, prepared |-> FALSE]

\* checkout_main_and_pull: reset --hard and clean -fd if the tree is dirty,
\* checkout main, pull origin main.
CheckoutMainAndPull(r) == [r EXCEPT !.dirty = FALSE, !.head = 0, !.main = r.origin]

\* GitOperations.create_and_checkout_branch: from the pulled main, checkout
\* the branch if git branch --list names it, else checkout -b.
CreateAndCheckoutBranch(r, branch_name) ==
    LET m == CheckoutMainAndPull(r)
    IN  IF m.branches[branch_name].exists
        THEN [m EXCEPT !.head = branch_name, !.prepared = TRUE]
        ELSE [m EXCEPT !.head = branch_name, !.prepared = TRUE,
                       !.branches[branch_name] =
                           [exists |-> TRUE, base |-> m.main, commits |-> 0]]

\* GitOperations.commit_changes: nothing to commit, or add and commit.
CommitChanges(r) ==
    IF ~r.dirty THEN r
    ELSE [r EXCEPT !.dirty = FALSE, !.branches[r.head].commits = @ + 1]

\* No query yet in this process.
NoQuery == [made |-> FALSE, at |-> 0, created_after |-> 0, raised |-> FALSE]

\* ------------------------------------------------------------------ Init
\* run_polling_service constructing LinearPollingService over an absent file,
\* at time 0 and with the default lookback.
Init ==
    /\ POLL_LOOKBACK_DAYS = DefaultLookbackDays
    /\ faults = FALSE
    /\ repo = ClonedRepo
    /\ now = 0
    /\ start_time = now
    /\ last_query = NoQuery
    /\ last_save = "none"
    /\ poll_pc = "start"
    /\ running = FALSE
    /\ file = AbsentFile
    /\ processed_issues = LoadProcessed(AbsentFile)
    /\ in_progress_issues = LoadInProgress(AbsentFile)
    /\ new_issues = << >>
    /\ issue_id = 0
    /\ semaphore = 1
    /\ wf = [c \in Tasks |-> IdleFrame]
    /\ last_fetch = NoFetch
    /\ failed = {}
    /\ loaded_in_progress = {}

\* ----------------------------------------------- process_issue (the run)
\* A call made inside the try block at site `at`, ending with `ret`.
Step(c, at, fn, arg, ret, target) ==
    /\ wf[c].pc = at
    /\ wf' = [wf EXCEPT ![c] = Advance(@, Call(fn, arg, ret), target)]
    /\ UNCHANGED <<pollVars, semaphore, failed>>

\* Faulty variant: the gate lets a caller in without a free permit.
CanAcquire_NoGate(value) == TRUE

\* async with semaphore: enter once a permit is free, taking it.
CanAcquire(value) == value > 0

\* Faulty variant: the caller goes in without taking the permit.
Acquired_NotTaken(value) == value

\* Entering takes the permit.
Acquired(value) == value - 1

acquire(c) ==
    /\ wf[c].pc = "queued"
    /\ CanAcquire(semaphore)
    /\ semaphore' = Acquired(semaphore)
    /\ wf' = [wf EXCEPT ![c].pc = "get_issue_details"]
    /\ UNCHANGED <<pollVars, failed>>

get_issue_details(c) ==
    \/ \E d \in {"", "text"}, b \in {NoBranchName, SuggestedBranchName} :
        /\ wf[c].pc = "get_issue_details"
        /\ wf' = [wf EXCEPT ![c] =
                    [Advance(@, Call("get_issue_details", "issue_id", "ok"),
                             "comment_initial")
                       EXCEPT !.description = d, !.branchName = b]]
        /\ UNCHANGED <<pollVars, semaphore, failed>>
    \/ Step(c, "get_issue_details", "get_issue_details", "issue_id", "raise", "")

\* Every create_comment inside the try block.
create_comment(c) ==
    \E site \in CommentSites \ {"comment_error"}, ret \in {"ok", "raise"} :
        Step(c, site, "create_comment", CommentBody(site), ret, AfterComment(site))

get_status_id_by_name(c) ==
    \E site \in StatusSites, ret \in {"id", "None", "raise"} :
        Step(c, site, "get_status_id_by_name", StatusName(site), ret,
             AfterStatus(site, ret, wf[c].description))

\* update_issue_status returns issueUpdate.success, which process_issue does
\* not look at: "ok" the status was set, "False" it was not.
update_issue_status(c) ==
    \E site \in UpdateSites, ret \in {"ok", "False", "raise"} :
        Step(c, site, "update_issue_status", StatusName(site), ret,
             AfterUpdate(site, wf[c].description))

format_issue_description(c) ==
    \E ret \in {"ok", "raise"} :
        Step(c, "format_issue_description", "format_issue_description",
             "original_description", ret, "ensure_repo_cloned")

ensure_repo_cloned(c) ==
    \E ret \in {"ok", "raise"} :
        Step(c, "ensure_repo_cloned", "ensure_repo_cloned", "", ret,
             "create_and_checkout_branch")

create_and_checkout_branch(c) ==
    \E ret \in {"ok", "raise"} :
        Step(c, "create_and_checkout_branch", "create_and_checkout_branch",
             BranchName(wf[c].branchName, Identifier(wf[c].issue)), ret,
             "run_code_generation")

run_code_generation(c) ==
    \E ret \in {"ok", "raise"} :
        Step(c, "run_code_generation", "run_code_generation",
             "formatted_description", ret, "get_modified_files")

get_modified_files(c) ==
    \E ret \in {"empty", "nonempty", "raise"} :
        Step(c, "get_modified_files", "get_modified_files", "", ret,
             AfterModifiedFiles(ret))

\* success, reasoning = llm_service.evaluate_result(...)
evaluate_result(c) ==
    \E response \in LlmOutcomes :
        LET e == EvaluateResult(response)
        IN  /\ wf[c].pc = "evaluate_result"
            /\ wf' = [wf EXCEPT ![c] =
                        [Advance(@, Call("evaluate_result", "formatted_description", e.ret),
                                 AfterEvaluate(e.ret))
                           EXCEPT !.response = response, !.reasoning = e.reasoning]]
            /\ UNCHANGED <<pollVars, semaphore, failed>>

\* commit_message, pr_description = llm_service.generate_pr_content(...)
generate_pr_content(c) ==
    \E draft \in DraftOutcomes :
        LET g == GeneratePrContent(draft)
        IN  /\ wf[c].pc = "generate_pr_content"
            /\ wf' = [wf EXCEPT ![c] =
                        [Advance(@, Call("generate_pr_content", "formatted_description",
                                         g.ret), "commit_changes")
                           EXCEPT !.draft = draft, !.commit_message = g.commit_message]]
            /\ UNCHANGED <<pollVars, semaphore, failed>>

commit_changes(c) ==
    \E ret \in {"True", "False", "raise"} :
        Step(c, "commit_changes", "commit_changes", "commit_message", ret,
             AfterCommit(ret))

push_branch(c) ==
    \E ret \in {"ok", "raise"} :
        Step(c, "push_branch", "push_branch",
             BranchName(wf[c].branchName, Identifier(wf[c].issue)), ret,
             "create_pull_request")

create_pull_request(c) ==
    \E ret \in {"pr_data", "None", "raise"} :
        Step(c, "create_pull_request", "create_pull_request",
             BranchName(wf[c].branchName, Identifier(wf[c].issue)), ret,
             AfterPullRequest(ret))

\* The except handler's own comment: its failure is caught and logged.
error_comment(c) ==
    \E ret \in {"ok", "raise"} :
        /\ wf[c].pc = "comment_error"
        /\ wf' = [wf EXCEPT ![c].calls =
                     Append(@, Call("create_comment", CommentBody("comment_error"), ret)),
                  ![c].pc = "release"]
        /\ UNCHANGED <<pollVars, semaphore, failed>>

\* The exception caught came out of a collaborator call (not the check of the
\* description).
CollaboratorError(error) == error \notin {"", "Issue description is empty"}

\* Faulty variant: leaving the block keeps the permit.
Released_Kept(value) == value

\* Leaving the async with block, however it is left, gives the permit back.
Released(value) == value + 1

\* Leaving the async with block gives the permit back; the coroutine is over.
\* What the poll loop's call did stays readable (pc "done") until the for loop
\* moves on to its next candidate; another caller's coroutine is gone at once.
release(c) ==
    /\ wf[c].pc = "release"
    /\ semaphore' = Released(semaphore)
    /\ wf' = [wf EXCEPT ![c] =
                IF c = PollTask
                THEN [@ EXCEPT !.pc = "done", !.raised = Propagates(@.error)]
                ELSE IdleFrame]
    /\ failed' = IF CollaboratorError(wf[c].error) THEN failed \cup {wf[c].issue}
                 ELSE failed \ {wf[c].issue}
    /\ UNCHANGED pollVars

process_issue(c) ==
    \/ acquire(c)
    \/ get_issue_details(c)
    \/ create_comment(c)
    \/ get_status_id_by_name(c)
    \/ update_issue_status(c)
    \/ format_issue_description(c)
    \/ ensure_repo_cloned(c)
    \/ create_and_checkout_branch(c)
    \/ run_code_generation(c)
    \/ get_modified_files(c)
    \/ evaluate_result(c)
    \/ generate_pr_content(c)
    \/ commit_changes(c)
    \/ push_branch(c)
    \/ create_pull_request(c)
    \/ error_comment(c)
    \/ release(c)

\* ------------------------------------------------- LinearPollingService
\* A candidate as get_issues_by_label returns it: issue["id"] and
\* issue["state"]["name"].
Issues == [id : Ids, state : StatusNames]

\* The candidate lists a fetch may return: the nodes of one issues(filter: ...)
\* query, each matching issue once, in any order and in any status.
FetchLists ==
    {ai_issues \in UNION {[1..n -> Issues] : n \in 0..MaxFetch} :
        \A i, j \in DOMAIN ai_issues : i # j => ai_issues[i].id # ai_issues[j].id}

\* Every list of candidates, one that names an issue twice included.
AnyFetchLists == UNION {[1..n -> Issues] : n \in 0..MaxFetch}

\* Faulty variant: the filter forgets the in-progress set.
IsNew_ProcessedOnly(issue, processed, in_progress) == issue.id \notin processed

\* The filter of _process_new_issues: not processed and not in progress.
IsNew(issue, processed, in_progress) ==
    /\ issue.id \notin processed
    /\ issue.id \notin in_progress

RECURSIVE FilterNew(_, _, _)
FilterNew(ai_issues, processed, in_progress) ==
    IF ai_issues = << >> THEN << >>
    ELSE LET rest == FilterNew(Tail(ai_issues), processed, in_progress)
         IN  IF IsNew(Head(ai_issues), processed, in_progress)
             THEN <<Head(ai_issues)>> \o rest
             ELSE rest

\* Faulty variant: the status of a candidate is not looked at.
IsTodo_Any(issue) == TRUE

\* Only issues in "Todo" status are processed.
IsTodo(issue) == issue.state = "Todo"

\* The ids a fetched list carries in status Todo.
TodoIds(ai_issues) == {ai_issues[i].id : i \in {j \in DOMAIN ai_issues : IsTodo(ai_issues[j])}}

\* start_polling: self.running = True, then the while loop.
start_polling ==
    /\ poll_pc = "start"
    /\ running' = TRUE
    /\ poll_pc' = "while"
    /\ UNCHANGED <<processed_issues, in_progress_issues, new_issues, issue_id, file,
                   semaphore, wf, last_fetch, failed, loaded_in_progress, envVars, start_time, last_query, last_save>>

\* while self.running: a cleared flag ends the loop, and with it the process.
while_running ==
    /\ poll_pc = "while"
    /\ poll_pc' = IF running THEN "fetch" ELSE "exited"
    /\ UNCHANGED <<running, processed_issues, in_progress_issues, new_issues, issue_id,
                   file, semaphore, wf, last_fetch, failed, loaded_in_progress, envVars, start_time, last_query, last_save>>

\* Faulty variant: the boundary is always reckoned from the time of the query.
LookbackDate_FromNow(days, start, t) == t - days

\* lookback_date: the start of the program if POLL_LOOKBACK_DAYS is 0, else
\* datetime.now() - timedelta(days=POLL_LOOKBACK_DAYS).
LookbackDate(days, start, t) == IF days = 0 THEN start ELSE t - days

\* _get_ai_tagged_issues and the filter; a raising fetch is caught by the
\* cycle's except and the cycle is over.
\* Faulty variant: an exception of the fetch is swallowed where it is raised
\* and the cycle goes on to its for loop.
AfterFetch_Swallowed(raised) == "for"

\* The fetch returned (the filter and the for loop follow) or it raised (the
\* except branch of the cycle logs, and the cycle is over).
AfterFetch(raised) == IF raised THEN "sleep" ELSE "for"

FetchAndFilter(lists) ==
    /\ poll_pc = "fetch"
    /\ \/ \E ai_issues \in lists :
            /\ new_issues' = FilterNew(ai_issues, processed_issues, in_progress_issues)
            /\ last_fetch' =
                 [todo |-> TodoIds(ai_issues),
                  kept |-> {ai_issues[i].id : i \in
                              {j \in DOMAIN ai_issues :
                                 IsNew(ai_issues[j], processed_issues, in_progress_issues)}},
                  in_progress |-> in_progress_issues]
            /\ poll_pc' = AfterFetch(FALSE)
            /\ last_query' =
                 [made |-> TRUE, at |-> now,
                  created_after |-> LookbackDate(POLL_LOOKBACK_DAYS, start_time, now),
                  raised |-> FALSE]
       \/ /\ poll_pc' = AfterFetch(TRUE)
          /\ last_query' =
                 [made |-> TRUE, at |-> now,
                  created_after |-> LookbackDate(POLL_LOOKBACK_DAYS, start_time, now),
                  raised |-> TRUE]
          /\ UNCHANGED <<new_issues, last_fetch>>
    /\ UNCHANGED <<running, processed_issues, in_progress_issues, issue_id, file,
                   semaphore, wf, failed, loaded_in_progress, envVars, start_time,
                   last_save>>

\* The tracker answers with a list that names each matching issue once.
get_ai_tagged_issues == FetchAndFilter(FetchLists)

\* The tracker answers with any list.
get_ai_tagged_issues_any == FetchAndFilter(AnyFetchLists)

\* for issue in new_issues: an issue not in Todo is skipped.
skip_issue ==
    /\ poll_pc = "for"
    /\ new_issues # << >>
    /\ ~IsTodo(Head(new_issues))
    /\ issue_id' = Head(new_issues).id
    /\ new_issues' = Tail(new_issues)
    /\ wf' = [wf EXCEPT ![PollTask] = IdleFrame]
    /\ UNCHANGED <<poll_pc, running, processed_issues, in_progress_issues, file,
                   semaphore, last_fetch, failed, loaded_in_progress, envVars, start_time, last_query, last_save>>

\* The process is gone: nothing in memory survives.
ProcessExit ==
    /\ running' = FALSE
    /\ poll_pc' = "exited"
    /\ processed_issues' = {}
    /\ in_progress_issues' = {}
    /\ new_issues' = << >>
    /\ issue_id' = 0
    /\ semaphore' = 1
    /\ wf' = [c \in Tasks |-> IdleFrame]
    /\ last_fetch' = NoFetch
    /\ loaded_in_progress' = {}
    /\ start_time' = 0
    /\ last_query' = NoQuery
    /\ last_save' = "none"
    /\ UNCHANGED <<failed, envVars>>

\* Faulty variant: the issue is dispatched without being marked.
MarkInProgress_Skipped(in_progress, id) == in_progress

\* self.in_progress_issues.add(issue_id)
MarkInProgress(in_progress, id) == in_progress \cup {id}

\* Mark as in-progress, save, and call process_issue. An error that came out
\* of the save would end the cycle in its except branch.
dispatch_issue ==
    /\ poll_pc = "for"
    /\ new_issues # << >>
    /\ IsTodo(Head(new_issues))
    /\ \E outcome \in SaveOutcomes(faults) :
        LET id == Head(new_issues).id
        IN  /\ file' = FileAfterSave(file, processed_issues,
                                     MarkInProgress(in_progress_issues, id), outcome)
            /\ IF outcome = "killed" THEN ProcessExit
               ELSE /\ issue_id' = id
                    /\ in_progress_issues' = MarkInProgress(in_progress_issues, id)
                    /\ new_issues' = Tail(new_issues)
                    /\ IF SaveRaises(outcome)
                       THEN /\ wf' = [wf EXCEPT ![PollTask] = IdleFrame]
                            /\ poll_pc' = "sleep"
                       ELSE /\ wf' = [wf EXCEPT ![PollTask] =
                                        [IdleFrame EXCEPT !.pc = "queued", !.issue = id]]
                            /\ poll_pc' = "await"
                    /\ last_save' = SaveLogged(outcome)
                    /\ UNCHANGED <<running, processed_issues, semaphore, last_fetch,
                                   failed, loaded_in_progress, envVars, start_time,
                                   last_query>>

\* Faulty variant: a run that is over ends the tick, whatever is left in the list.
AfterProcessIssue_EndsTick(raised) == "sleep"

\* Faulty variant: the loop goes on to the next candidate without un-marking and saving.
AfterProcessIssue_NoSave(raised) == "for"

\* process_issue is over: it returned (processed_issues.add is next) or it
\* raised (the except branch keeps the issue in progress).
AfterProcessIssue(raised) == IF raised THEN "for" ELSE "remove_in_progress"

mark_processed ==
    /\ poll_pc = "await"
    /\ wf[PollTask].pc = "done"
    /\ processed_issues' =
         IF wf[PollTask].raised THEN processed_issues ELSE processed_issues \cup {issue_id}
    /\ poll_pc' = AfterProcessIssue(wf[PollTask].raised)
    /\ UNCHANGED <<running, in_progress_issues, new_issues, issue_id, file, semaphore, wf,
                   last_fetch, failed, loaded_in_progress, envVars, start_time, last_query, last_save>>

\* Faulty variant: the issue is never taken out of the in-progress set.
RemoveInProgress_Kept(in_progress, id) == in_progress

\* self.in_progress_issues.remove(issue_id)
RemoveInProgress(in_progress, id) == in_progress \ {id}

\* in_progress_issues.remove and _save_state; remove of an absent id raises
\* KeyError into the except branch, before the save.
remove_in_progress ==
    /\ poll_pc = "remove_in_progress"
    /\ IF issue_id \in in_progress_issues
       THEN \E outcome \in SaveOutcomes(faults) :
              /\ file' = FileAfterSave(file, processed_issues,
                                       RemoveInProgress(in_progress_issues, issue_id),
                                       outcome)
              /\ IF outcome = "killed" THEN ProcessExit
                 ELSE /\ in_progress_issues' =
                           RemoveInProgress(in_progress_issues, issue_id)
                      /\ poll_pc' = "for"
                      /\ last_save' = SaveLogged(outcome)
                      /\ UNCHANGED <<running, processed_issues, new_issues, issue_id,
                                     semaphore, wf, last_fetch, failed,
                                     loaded_in_progress, envVars, start_time, last_query>>
       ELSE /\ poll_pc' = "for"
            /\ UNCHANGED <<in_progress_issues, file, running, processed_issues,
                           new_issues, issue_id, semaphore, wf, last_fetch, failed,
                           loaded_in_progress, envVars, start_time, last_query, last_save>>

\* The for loop is exhausted (or there were no new issues): the cycle ends.
end_cycle ==
    /\ poll_pc = "for"
    /\ new_issues = << >>
    /\ poll_pc' = "sleep"
    /\ wf' = [wf EXCEPT ![PollTask] = IdleFrame]
    /\ UNCHANGED <<running, processed_issues, in_progress_issues, new_issues, issue_id,
                   file, semaphore, last_fetch, failed, loaded_in_progress, envVars, start_time, last_query, last_save>>

\* await asyncio.sleep(self.poll_interval)
sleep ==
    /\ poll_pc = "sleep"
    /\ poll_pc' = "while"
    /\ UNCHANGED <<running, processed_issues, in_progress_issues, new_issues, issue_id,
                   file, semaphore, wf, last_fetch, failed, loaded_in_progress, envVars, start_time, last_query, last_save>>

\* ----------------------------------------------------------------- main
\* SIGINT / SIGTERM: stop_polling() clears the flag and sys.exit(0) unwinds
\* whatever the process is doing, a run in flight included. The process is
\* over: nothing in memory survives, the state file does.
signal_handler ==
    /\ poll_pc # "exited"
    /\ ProcessExit
    /\ UNCHANGED file

\* The command is started again: a fresh module (semaphore, no coroutine) and
\* LinearPollingService.__init__ loading the state file.
run_polling_service ==
    /\ poll_pc = "exited"
    /\ poll_pc' = "start"
    /\ running' = FALSE
    /\ processed_issues' = LoadProcessed(file)
    /\ in_progress_issues' = LoadInProgress(file)
    /\ loaded_in_progress' = LoadInProgress(file)
    /\ start_time' = now
    /\ UNCHANGED <<new_issues, issue_id, file, semaphore, wf, last_fetch, failed,
                   envVars, last_query, last_save>>

\* ------------------------------------------------------- specifications
Next ==
    \/ start_polling
    \/ while_running
    \/ get_ai_tagged_issues
    \/ skip_issue
    \/ dispatch_issue
    \/ process_issue(PollTask)
    \/ mark_processed
    \/ remove_in_progress
    \/ end_cycle
    \/ sleep
    \/ signal_handler
    \/ run_polling_service

Spec == Init /\ [][Next]_vars

\* process_issue called by several coroutines at once: each caller queues a
\* call for some ticket and runs it; the gate is all that stands between them.
external_call(c, id) ==
    /\ wf[c].pc = "idle"
    /\ wf' = [wf EXCEPT ![c] = [IdleFrame EXCEPT !.pc = "queued", !.issue = id]]
    /\ UNCHANGED <<pollVars, semaphore, failed>>

NextCallers ==
    \/ \E c \in ExtTasks : process_issue(c)
    \/ \E c \in ExtTasks, id \in Ids : external_call(c, id)

SpecCallers == Init /\ [][NextCallers]_vars

\* Two callers of process_issue under a scheduler that lets a coroutine that
\* can go on go on: every collaborator call comes back, with a result or an
\* exception, and the event loop resumes a coroutine that is ready.
GateTasks == {c \in ExtTasks : c <= 2}

NextGate ==
    \/ \E c \in GateTasks : process_issue(c)
    \/ \E c \in GateTasks, id \in Ids : external_call(c, id)

SpecGate ==
    /\ Init
    /\ [][NextGate]_vars
    /\ WF_vars(\E c \in GateTasks : process_issue(c))

\* Time passes.
advance_clock ==
    /\ now < MaxTime
    /\ now' = now + 1
    /\ UNCHANGED <<poll_pc, running, processed_issues, in_progress_issues, new_issues,
                   issue_id, file, semaphore, wf, last_fetch, failed, loaded_in_progress,
                   POLL_LOOKBACK_DAYS, start_time, last_query, faults, last_save,
                   repo>>

\* The service started at any time and under any configured lookback, polling
\* while the clock runs; the ticks in which no candidate is dispatched.
InitLookback ==
    /\ POLL_LOOKBACK_DAYS \in 0..MaxLookbackDays
    /\ faults = FALSE
    /\ repo = ClonedRepo
    /\ now \in 0..MaxTime
    /\ start_time = now
    /\ last_query = NoQuery
    /\ last_save = "none"
    /\ poll_pc = "start"
    /\ running = FALSE
    /\ file = AbsentFile
    /\ processed_issues = LoadProcessed(AbsentFile)
    /\ in_progress_issues = LoadInProgress(AbsentFile)
    /\ new_issues = << >>
    /\ issue_id = 0
    /\ semaphore = 1
    /\ wf = [c \in Tasks |-> IdleFrame]
    /\ last_fetch = NoFetch
    /\ failed = {}
    /\ loaded_in_progress = {}

NextLookback ==
    \/ advance_clock
    \/ start_polling
    \/ while_running
    \/ get_ai_tagged_issues
    \/ skip_issue
    \/ end_cycle
    \/ sleep
    \/ signal_handler
    \/ run_polling_service

SpecLookback == InitLookback /\ [][NextLookback]_vars

\* The state store in an environment that may fail it: the process is about
\* to be started over no file or over a file _save_state did not write, and a
\* save may raise or be cut short.
InitStore ==
    /\ POLL_LOOKBACK_DAYS = DefaultLookbackDays
    /\ faults = TRUE
    /\ repo = ClonedRepo
    /\ now = 0
    /\ start_time = 0
    /\ last_query = NoQuery
    /\ last_save = "none"
    /\ poll_pc = "exited"
    /\ running = FALSE
    /\ file \in {AbsentFile} \cup DamagedFiles
    /\ processed_issues = {}
    /\ in_progress_issues = {}
    /\ new_issues = << >>
    /\ issue_id = 0
    /\ semaphore = 1
    /\ wf = [c \in Tasks |-> IdleFrame]
    /\ last_fetch = NoFetch
    /\ failed = {}
    /\ loaded_in_progress = {}

\* The whole of one process_issue call as the poll loop sees it: the call
\* takes the permit, runs, gives the permit back and returns (it does not
\* raise); no step of it touches the sets or the state file.
process_issue_returns ==
    /\ wf[PollTask].pc = "queued"
    /\ CanAcquire(semaphore)
    /\ wf' = [wf EXCEPT ![PollTask] =
                [@ EXCEPT !.pc = "done", !.raised = Propagates(@.error)]]
    /\ UNCHANGED <<pollVars, semaphore, failed>>

NextStore ==
    \/ start_polling
    \/ while_running
    \/ get_ai_tagged_issues
    \/ skip_issue
    \/ dispatch_issue
    \/ process_issue_returns
    \/ mark_processed
    \/ remove_in_progress
    \/ end_cycle
    \/ sleep
    \/ signal_handler
    \/ run_polling_service

SpecStore == InitStore /\ [][NextStore]_vars

\* One lifetime of the process, from an empty state, under a tracker that may
\* name an issue more than once in a list; the run is one step.
NextDuplicates ==
    \/ start_polling
    \/ while_running
    \/ get_ai_tagged_issues_any
    \/ skip_issue
    \/ dispatch_issue
    \/ process_issue_returns
    \/ mark_processed
    \/ remove_in_progress
    \/ end_cycle
    \/ sleep

SpecDuplicates == Init /\ [][NextDuplicates]_vars

\* The checkout under a sequence of runs, each preparing the workspace for
\* its ticket's branch, letting the generation write and committing, while
\* the origin's main moves on. The same ticket may be run again (its branch
\* is then there already).
serviceVars ==
    <<poll_pc, running, processed_issues, in_progress_issues, new_issues, issue_id,
      file, semaphore, wf, last_fetch, failed, loaded_in_progress, POLL_LOOKBACK_DAYS,
      now, start_time, last_query, faults, last_save>>

\* Somebody pushes to the origin's main.
origin_advances ==
    /\ repo.origin < MaxMainCommits
    /\ repo' = [repo EXCEPT !.origin = @ + 1]
    /\ UNCHANGED serviceVars

\* git_ops.create_and_checkout_branch(branch_name) returns.
prepare_workspace(id) ==
    /\ repo' = CreateAndCheckoutBranch(repo, id)
    /\ UNCHANGED serviceVars

\* run_code_generation writes into the checkout (or leaves it as it is).
generate_changes ==
    /\ repo.head # 0
    /\ repo.branches[repo.head].commits < MaxBranchCommits
    /\ repo' = [repo EXCEPT !.dirty = TRUE, !.prepared = FALSE]
    /\ UNCHANGED serviceVars

\* git_ops.commit_changes(commit_message) returns.
commit_workspace ==
    /\ repo.head # 0
    /\ repo' = [CommitChanges(repo) EXCEPT !.prepared = FALSE]
    /\ UNCHANGED serviceVars

NextGit ==
    \/ origin_advances
    \/ \E id \in Ids : prepare_workspace(id)
    \/ generate_changes
    \/ commit_workspace

SpecGit == Init /\ [][NextGit]_vars

\* --------------------------------------------------- reading a run's trace
\* The run is between acquiring and releasing the gate.
Executing(f) == f.pc \notin {"idle", "queued", "done"}

\* The run has left the try/except block.
Finished(f) == f.pc \in {"release", "done"}

Made(f, fn) == \E i \in DOMAIN f.calls : f.calls[i].fn = fn

MadeWith(f, fn, arg) ==
    \E i \in DOMAIN f.calls : f.calls[i].fn = fn /\ f.calls[i].arg = arg

Returned(f, fn, arg, ret) ==
    \E i \in DOMAIN f.calls :
        f.calls[i].fn = fn /\ f.calls[i].arg = arg /\ f.calls[i].ret = ret

\* No call of the run has raised.
NoRaise(f) == \A i \in DOMAIN f.calls : f.calls[i].ret # "raise"

\* The poll loop is past the completion step of its latest run.
Completed == poll_pc = "for" /\ wf[PollTask].pc = "done"

PublishCalls == {"generate_pr_content", "commit_changes", "push_branch", "create_pull_request"}

\* ------------------------------------------------------------------- C1
\* C1: at most one run of process_issue is executing at any time, whatever
\* the number of callers and their interleaving, and the permit is taken for
\* as long as a run is executing (from before its first call to after its last).
C1_AtMostOneRun ==
    /\ Cardinality({c \in Tasks : Executing(wf[c])}) <= 1
    /\ semaphore = 1 - Cardinality({c \in Tasks : Executing(wf[c])})

\* A run has made calls while another caller waits at the gate.
C1_Witness ==
    \E c, d \in Tasks :
        /\ Executing(wf[c]) /\ Len(wf[c].calls) >= 3
        /\ wf[d].pc = "queued"

\* ------------------------------------------------------------------- C2
\* C2: a ticket that was in in_progress when a tick fetched it is not among
\* the tick's new issues and no run is started for it in that tick.
C2_InProgressNotDispatched ==
    \A t \in last_fetch.in_progress :
        /\ \A i \in DOMAIN new_issues : new_issues[i].id # t
        /\ wf[PollTask].pc # "idle" => wf[PollTask].issue # t

\* A tick fetched an in-progress ticket in Todo and dispatched another ticket.
C2_Witness ==
    /\ last_fetch.in_progress \cap last_fetch.todo # {}
    /\ Executing(wf[PollTask])

\* ------------------------------------------------------------------- C3
\* C3: no snapshot in the state file names a ticket both in processed_issues
\* and in in_progress_issues.
C3_SnapshotExclusive == file.processed_issues \cap file.in_progress_issues = {}

\* A snapshot with a processed ticket and an in-progress one.
C3_Witness ==
    /\ file.exists
    /\ file.processed_issues # {}
    /\ file.in_progress_issues # {}

\* ------------------------------------------------------------------- C4
\* C4: a ticket recorded in in_progress in the state file when the process is
\* down, or loaded as in progress, stays so in every step: it stays in the
\* file's in_progress list, it is loaded and kept in the in-memory set, and no
\* step starts a run for it.
Stuck(t) ==
    /\ t \in file.in_progress_issues
    /\ poll_pc = "exited" \/ t \in loaded_in_progress

C4_StuckForever ==
    [][\A t \in Ids :
          Stuck(t) =>
             /\ Stuck(t)'
             /\ poll_pc' # "exited" => t \in in_progress_issues'
             /\ ~(wf'[PollTask].issue = t /\ wf'[PollTask].pc = "queued")]_vars

\* After a restart a tick fetched the stuck ticket in Todo and went on to
\* run another ticket.
C4_Witness ==
    /\ loaded_in_progress \cap last_fetch.todo # {}
    /\ wf[PollTask].pc = "done"

\* ------------------------------------------------------------------- C5
\* C5: once a run has returned without raising and the loop is back at its
\* for statement, the ticket is in processed, not in in_progress, and the
\* state file holds exactly the two in-memory sets.
C5_CompletionSaved ==
    (Completed /\ ~wf[PollTask].raised) =>
        /\ wf[PollTask].issue \in processed_issues
        /\ wf[PollTask].issue \notin in_progress_issues
        /\ file = SaveState(processed_issues, in_progress_issues)

\* The completion is done while another candidate is still to be handled.
C5_Witness ==
    /\ Completed
    /\ new_issues # << >>
    /\ wf[PollTask].issue \in file.processed_issues

\* ------------------------------------------------------------------- C6
\* C6: a run that failed with an uncaught error raises into the poll loop, so
\* its ticket stays in in_progress and is not added to processed.
C6_ErrorPropagates ==
    (Completed /\ wf[PollTask].error # "") =>
        /\ wf[PollTask].raised
        /\ wf[PollTask].issue \in in_progress_issues
        /\ wf[PollTask].issue \notin processed_issues

\* ------------------------------------------------------------------- C7
\* C7: a ticket whose latest run failed with a collaborator error and that a
\* later fetch returns in Todo passes the filter (and so is dispatched again).
\* A ticket the process was killed on is not meant: that is the stuck ticket
\* of C4.
C7_RetriedAfterError ==
    \A t \in (failed \cap last_fetch.todo) \ loaded_in_progress : t \in last_fetch.kept

\* ------------------------------------------------------------------- C8
\* C8 as written, and already for the runs in which no call raises: with no
\* modified path the finished run has posted the no-changes comment and set
\* the status to Todo, has made no evaluation or publish call, has not raised,
\* and the ticket ends in processed.
NoChanges(f) == Returned(f, "get_modified_files", "", "empty")

NothingCommitted(f) == Returned(f, "commit_changes", "commit_message", "False")

C9_CommitEmptiness ==
    \A c \in Tasks :
        NothingCommitted(wf[c]) =>
            /\ ~Made(wf[c], "push_branch")
            /\ ~Made(wf[c], "create_pull_request")
            /\ wf[c].pc = "done" => ~wf[c].raised

\* A run ended after an evaluation that succeeded and an empty commit.
C9_Witness ==
    /\ wf[PollTask].pc = "done"
    /\ Returned(wf[PollTask], "evaluate_result", "formatted_description", "True")
    /\ NothingCommitted(wf[PollTask])

\* ------------------------------------------------------------------ C10
\* C10 as written, and already for the runs in which no call raises: after
\* success = False the finished run has posted the failure comment with the
\* reasoning and the raw result and has set the status to Todo, and it has made
\* no draft, commit, push or pull-request call.
EvaluationFailed(f) == Returned(f, "evaluate_result", "formatted_description", "False")

AllSucceeded(f) ==
    /\ NoRaise(f)
    /\ ~NoChanges(f)
    /\ ~EvaluationFailed(f)
    /\ ~NothingCommitted(f)
    /\ \A i \in DOMAIN f.calls :
          f.calls[i].fn = "create_pull_request" => f.calls[i].ret # "None"

\* Every call fn of the trace comes after a call of before.
Precedes(f, before, fn) ==
    \A i \in DOMAIN f.calls :
        f.calls[i].fn = fn => \E j \in 1..(i - 1) : f.calls[j].fn = before

Times(f, fn) == Cardinality({i \in DOMAIN f.calls : f.calls[i].fn = fn})

\* C11: in a run on a ticket with a description and no suggested branch name
\* in which every call succeeds, the branch checked out, pushed and proposed
\* is ai/<lowercased identifier>; the commit comes after the checkout, the
\* push after the commit and the pull request after the push; the finished
\* run has made each of the four calls once; and once the loop has completed
\* the run the ticket is in processed and not in in_progress.
C11_EndToEnd ==
    LET f == wf[PollTask]
        ai == <<"a", "i", "/">> \o Lower(Identifier(f.issue))
    IN  (f.description # "" /\ f.branchName = NoBranchName /\ AllSucceeded(f)) =>
          /\ \A i \in DOMAIN f.calls :
                f.calls[i].fn \in {"create_and_checkout_branch", "push_branch",
                                    "create_pull_request"}
                  => f.calls[i].arg = ai
          /\ Precedes(f, "create_and_checkout_branch", "commit_changes")
          /\ Precedes(f, "commit_changes", "push_branch")
          /\ Precedes(f, "push_branch", "create_pull_request")
          /\ Finished(f) =>
                \A fn \in {"create_and_checkout_branch", "commit_changes",
                            "push_branch", "create_pull_request"} : Times(f, fn) = 1
          /\ Completed =>
                f.issue \in processed_issues /\ f.issue \notin in_progress_issues

\* A run on ticket T-1 without a suggested branch name went through and opened
\* the pull request for ai/t-1; the loop has completed it.
C11_Witness ==
    LET f == wf[PollTask]
    IN  /\ Completed
        /\ f.issue = 1
        /\ f.description # "" /\ f.branchName = NoBranchName /\ AllSucceeded(f)
        /\ Returned(f, "create_pull_request",
                    <<"a", "i", "/", "t", "-", "1">>, "pr_data")
        /\ f.issue \in processed_issues

\* ------------------------------------------------------------------ C12
\* The status of the run's ticket in the tracker: Todo when the loop
\* dispatched it, then whatever the last update that took effect set.
TrackerStatus(f) ==
    LET updates == {i \in DOMAIN f.calls :
                      f.calls[i].fn = "update_issue_status" /\ f.calls[i].ret = "ok"}
    IN  IF updates = {} THEN "Todo"
        ELSE f.calls[CHOOSE i \in updates : \A j \in updates : j <= i].arg

\* The run ended on a failure or no-change path: the except handler, no
\* modified path, a failed evaluation, nothing to commit, no pull request.
FailurePath(f) ==
    \/ f.error # ""
    \/ NoChanges(f)
    \/ EvaluationFailed(f)
    \/ NothingCommitted(f)
    \/ Returned(f, "create_pull_request",
                BranchName(f.branchName, Identifier(f.issue)), "None")

\* C12: a run that has ended on a failure or no-change path, in a team that
\* has the Todo status, leaves its ticket in Todo in the tracker.
C12_ResumableStatus ==
    LET f == wf[PollTask]
    IN  ( /\ Finished(f)
          /\ FailurePath(f)
          /\ ~Returned(f, "get_status_id_by_name", "Todo", "None") )
        => TrackerStatus(f) = "Todo"

\* ------------------------------------------------------------------ C13
\* C13: the step in which the for loop takes a candidate whose status is not
\* Todo changes neither processed_issues nor in_progress_issues nor the state
\* file and starts no run; the candidate is in neither set afterwards, so it
\* passes the filter of a later tick that fetches it, then in Todo.
C13_SkipNoChange ==
    [][( /\ poll_pc = "for" /\ poll_pc' # "exited"
         /\ new_issues # << >>
         /\ Head(new_issues).state # "Todo"
         /\ new_issues' = Tail(new_issues) )
       => /\ UNCHANGED <<processed_issues, in_progress_issues, file>>
          /\ poll_pc' = "for"
          /\ wf'[PollTask].pc = "idle"
          /\ IsNew([id |-> Head(new_issues).id, state |-> "Todo"],
                   processed_issues', in_progress_issues')]_vars

\* The loop has just passed over a candidate that the tick fetched in another
\* status than Todo, after an earlier run left a snapshot in the state file.
C13_Witness ==
    /\ poll_pc = "for"
    /\ wf[PollTask].pc = "idle"
    /\ issue_id \in last_fetch.kept \ last_fetch.todo
    /\ \A i \in DOMAIN new_issues : new_issues[i].id # issue_id
    /\ file.exists

\* ------------------------------------------------------------------ C14
\* The loop is inside _process_new_issues: fetching, going through the
\* candidates, awaiting a run or completing it.
InTick == poll_pc \in {"fetch", "for", "await", "remove_in_progress"}

\* C14: the process does not exit while a tick is executing; whatever arrives
\* during a tick, a signal included, the tick (and the run it awaits) goes on.
C14_GracefulShutdown == [][InTick => poll_pc' # "exited"]_vars

\* ------------------------------------------------------------------ C15
\* C15: the created-after boundary of every query is the service's start time
\* when POLL_LOOKBACK_DAYS is 0, the same at every query of the process, and
\* the time of the query minus POLL_LOOKBACK_DAYS days when it is positive.
C15_LookbackBoundary ==
    [][last_query'.made =>
          /\ POLL_LOOKBACK_DAYS' = 0 =>
                /\ last_query'.created_after = start_time'
                /\ last_query.made => last_query'.created_after = last_query.created_after
          /\ POLL_LOOKBACK_DAYS' > 0 =>
                last_query'.created_after = last_query'.at - POLL_LOOKBACK_DAYS']_vars

\* With lookback 0 a query made after the day the service started carried the
\* start time, not the time of the query.
C15_Witness ==
    /\ POLL_LOOKBACK_DAYS = 0
    /\ last_query.made
    /\ last_query.at > start_time
    /\ last_query.created_after = start_time

\* ------------------------------------------------------------------ C16
\* C16: a service that has just been constructed (_load_state has returned,
\* the loop has not started) holds two empty sets when there is no state file
\* and when reading or parsing the file failed.
C16_LoadFailOpen ==
    (poll_pc = "start" /\ (~file.exists \/ LoadFails(file))) =>
        /\ processed_issues = {}
        /\ in_progress_issues = {}

\* ------------------------------------------------------------------ C17
\* C17: whatever a step does to the state file, a save that raises or a
\* process that is ended inside a save included, the file holds a complete
\* snapshot afterwards: it is never left empty or half-written.
C17_AtomicSave == [][file' # file => (file'.exists /\ file'.doc = "snapshot")]_vars

\* ------------------------------------------------------------------ C18
\* The step left the state file other than a save of the sets that succeeds
\* leaves it, and the process is still there: the save raised.
SaveFailed ==
    /\ poll_pc' # "exited"
    /\ file' # SaveState(processed_issues', in_progress_issues')

\* C18: an error of the state store ends neither the process nor the tick.
\* When the save after marking a ticket in progress raises, the ticket is in
\* in_progress and its process_issue call is made all the same; when the
\* save of the completion step raises, the loop goes on to its next
\* candidate; the running flag stays set in both; and a load that fails
\* leaves a constructed service about to start its loop.
C18_StoreErrorNotFatal ==
    [][/\ (poll_pc = "for" /\ in_progress_issues' # in_progress_issues /\ SaveFailed) =>
            /\ poll_pc' = "await"
            /\ wf'[PollTask].pc = "queued"
            /\ wf'[PollTask].issue \in in_progress_issues'
            /\ running' = running
       /\ (poll_pc = "remove_in_progress" /\ SaveFailed) =>
            /\ poll_pc' = "for"
            /\ running' = running
       /\ (poll_pc = "exited" /\ poll_pc' # "exited" /\ LoadFails(file)) =>
            poll_pc' = "start"]_vars

\* Every save so far has failed (there is still no state file), a ticket's
\* run was made and completed all the same, and a later tick has fetched the
\* ticket and filtered it out as processed.
C18_Witness ==
    /\ poll_pc = "for"
    /\ wf[PollTask].pc = "idle"
    /\ running
    /\ ~file.exists
    /\ (processed_issues \cap last_fetch.todo) \ last_fetch.kept # {}

\* ------------------------------------------------------------------ C19
\* The place of a call in the try block of process_issue, top to bottom; the
\* comments and status changes that close a run, and the except handler's
\* comment, come after the pull request.
StepRank(call) ==
    CASE call.fn = "get_issue_details" -> 1
      [] call.fn = "create_comment" /\ call.arg = "initial" -> 2
      [] call.fn = "get_status_id_by_name" /\ call.arg = "In Progress" -> 3
      [] call.fn = "update_issue_status" /\ call.arg = "In Progress" -> 4
      [] call.fn = "format_issue_description" -> 5
      [] call.fn = "ensure_repo_cloned" -> 6
      [] call.fn = "create_and_checkout_branch" -> 7
      [] call.fn = "run_code_generation" -> 8
      [] call.fn = "get_modified_files" -> 9
      [] call.fn = "evaluate_result" -> 10
      [] call.fn = "generate_pr_content" -> 11
      [] call.fn = "commit_changes" -> 12
      [] call.fn = "push_branch" -> 13
      [] call.fn = "create_pull_request" -> 14
      [] OTHER -> 15

IsErrorComment(call) == call.fn = "create_comment" /\ call.arg = CommentBody("comment_error")

\* C19: the calls of a run are made in the order of the steps, none twice, and
\* a call that raises is the last of the run but for the except handler's
\* comment, which is then the only call after it.
C19_OrderAndAbort ==
    \A c \in Tasks :
        LET calls == wf[c].calls
        IN  /\ \A i \in 1..(Len(calls) - 1) :
                  \/ StepRank(calls[i]) < StepRank(calls[i + 1])
                  \/ StepRank(calls[i]) = 15 /\ StepRank(calls[i + 1]) = 15
            /\ \A i \in DOMAIN calls :
                  calls[i].ret = "raise" =>
                      \/ i = Len(calls)
                      \/ i + 1 = Len(calls) /\ IsErrorComment(calls[i + 1])
            /\ \A i \in DOMAIN calls :
                  IsErrorComment(calls[i]) =>
                      /\ i = Len(calls)
                      /\ wf[c].error # ""

\* push_branch raised in a run that had committed; the run ended with the
\* except handler's comment as its next and last call.
C19_Witness ==
    LET calls == wf[PollTask].calls
    IN  /\ wf[PollTask].pc = "done"
        /\ Len(calls) >= 2
        /\ calls[Len(calls) - 1].fn = "push_branch"
        /\ calls[Len(calls) - 1].ret = "raise"
        /\ IsErrorComment(calls[Len(calls)])

\* ------------------------------------------------------------------ C20
\* C20 as written: in every state of the poll loop no ticket id is both in
\* processed_issues and in in_progress_issues.
C20_SetsDisjoint == processed_issues \cap in_progress_issues = {}

\* C20 amended: the two sets are disjoint in every state but the one inside
\* the completion step, between processed_issues.add and
\* in_progress_issues.remove, where the ticket just run, and no other, is in
\* both.
C20_SetsDisjointAmended ==
    processed_issues \cap in_progress_issues =
        IF poll_pc = "remove_in_progress" THEN {issue_id} ELSE {}

\* The loop has completed a run while a ticket loaded as in progress is kept
\* in in_progress_issues.
C20_Witness ==
    /\ Completed
    /\ processed_issues # {}
    /\ in_progress_issues # {}

\* ------------------------------------------------------------------ C21
\* C21: while the poll loop's process_issue call for a ticket is waiting at
\* the gate or executing, the ticket is in in_progress_issues and not in
\* processed_issues, and the state file already records it as in progress:
\* the save was made before the call, so before the run's first call.
C21_MarkBeforeRun ==
    LET f == wf[PollTask]
    IN  (f.pc = "queued" \/ Executing(f)) =>
          /\ f.issue \in in_progress_issues
          /\ f.issue \notin processed_issues
          /\ f.issue \in file.in_progress_issues
          /\ f.issue \notin file.processed_issues

\* The run is about to make its first collaborator call.
C21_Witness ==
    /\ wf[PollTask].pc = "get_issue_details"
    /\ wf[PollTask].calls = << >>
    /\ wf[PollTask].issue \in file.in_progress_issues

\* ------------------------------------------------------------------ C22
\* The loop is running and not between the two halves of a completion
\* (processed_issues.add done, remove and save still to come).
BetweenMutations == poll_pc \in {"for", "await", "sleep", "while", "fetch"}

\* C22 as written: once the process has saved, then whenever the loop is not
\* inside a mutation, between ticks in particular, the state file is the full
\* snapshot of the two in-memory sets, whatever the saves ran into.
C22_FileEqualsSets ==
    (BetweenMutations /\ last_save # "none") =>
        file = SaveState(processed_issues, in_progress_issues)

\* C22 amended: the same, in as far as the latest save did not raise.
C22_FileEqualsSetsAmended ==
    (BetweenMutations /\ last_save = "saved") =>
        file = SaveState(processed_issues, in_progress_issues)

\* The loop is idle between two ticks after a completion whose save went
\* through: the file holds the processed ticket.
C22_Witness ==
    /\ poll_pc = "sleep"
    /\ last_save = "saved"
    /\ processed_issues # {}
    /\ file = SaveState(processed_issues, in_progress_issues)

\* ------------------------------------------------------------------ C23
\* The operations on the working-directory checkout.
CheckoutCalls ==
    {"ensure_repo_cloned", "create_and_checkout_branch", "run_code_generation",
     "get_modified_files", "commit_changes", "push_branch"}

\* The step makes a call that works on the checkout.
TouchesCheckout ==
    \E c \in Tasks :
        /\ Len(wf'[c].calls) = Len(wf[c].calls) + 1
        /\ wf'[c].calls[Len(wf'[c].calls)].fn \in CheckoutCalls

\* C23 as written: a step that writes the state file or works on the checkout
\* is taken while the permit of the gate is held.
C23_UnderGate ==
    [][(file' # file \/ TouchesCheckout) => (semaphore = 0 /\ semaphore' = 0)]_vars

\* C23 amended: the checkout is worked on only while the permit is held; the
\* state file is written only by the poll loop, in its mark and completion
\* steps, with the permit free and no run executing.
C23_UnderGateAmended ==
    [][/\ TouchesCheckout => (semaphore = 0 /\ semaphore' = 0)
       /\ file' # file =>
            /\ semaphore = 1 /\ semaphore' = 1
            /\ \A c \in Tasks : ~Executing(wf[c]) /\ ~Executing(wf'[c])
            /\ poll_pc \in {"for", "remove_in_progress"}]_vars

\* A run has committed on the checkout over a state file that the loop wrote
\* before the run took the permit.
C23_Witness ==
    /\ Made(wf[PollTask], "commit_changes")
    /\ semaphore = 0
    /\ wf[PollTask].issue \in file.in_progress_issues

\* ------------------------------------------------------------------ C24
\* C24: the first call of every run is the initial comment, the ticket detail
\* is fetched after it and the In Progress status is resolved after that; a
\* finished run has posted the initial comment, whatever the fetch of the
\* detail did.
C24_AcknowledgeOrder ==
    LET f == wf[PollTask]
    IN  /\ f.calls # << >> =>
              /\ f.calls[1].fn = "create_comment"
              /\ f.calls[1].arg = CommentBody("comment_initial")
        /\ Precedes(f, "create_comment", "get_issue_details")
        /\ Precedes(f, "get_issue_details", "get_status_id_by_name")
        /\ Finished(f) => MadeWith(f, "create_comment", CommentBody("comment_initial"))

\* ------------------------------------------------------------------ C25
\* The detail came back with a null or empty description.
EmptyDescription(f) ==
    /\ Returned(f, "get_issue_details", "issue_id", "ok")
    /\ f.description = ""

\* The calls that follow the check of the description.
WorkCalls ==
    {"format_issue_description", "ensure_repo_cloned", "create_and_checkout_branch",
     "run_code_generation", "get_modified_files", "evaluate_result",
     "generate_pr_content", "commit_changes", "push_branch", "create_pull_request"}

\* No call of the run raised before the except handler's own comment.
NoRaiseInTry(f) ==
    \A i \in DOMAIN f.calls : f.calls[i].ret = "raise" => IsErrorComment(f.calls[i])

\* C25: a run whose ticket has an empty description makes none of the format,
\* git, generation, evaluation, draft and pull-request calls; it ends in the
\* except handler, whose comment (the one that carries str(e)) is its last
\* call, and the error is "Issue description is empty" whenever the calls
\* before the check went through.
C25_EmptyDescription ==
    LET f == wf[PollTask]
    IN  EmptyDescription(f) =>
          /\ \A fn \in WorkCalls : ~Made(f, fn)
          /\ Finished(f) =>
                /\ IsErrorComment(f.calls[Len(f.calls)])
                /\ "error" \in CommentFields(f.calls[Len(f.calls)].arg)
                /\ f.error # ""
                /\ NoRaiseInTry(f) => f.error = "Issue description is empty"

\* A run on a ticket without description has ended after the acknowledgement
\* and the status change, with the failure comment posted.
C25_Witness ==
    LET f == wf[PollTask]
    IN  /\ f.pc = "done"
        /\ EmptyDescription(f)
        /\ Returned(f, "update_issue_status", "In Progress", "ok")
        /\ f.error = "Issue description is empty"
        /\ Returned(f, "create_comment", CommentBody("comment_error"), "ok")

\* ------------------------------------------------------------------ C26
\* C26: when create_and_checkout_branch has returned, the tree is clean and
\* the branch checked out starts from the main line as just pulled, with no
\* commit of its own, whether the branch is new or was there already.
C26_PreparedWorkspace ==
    repo.prepared =>
        /\ ~repo.dirty
        /\ repo.head # 0
        /\ repo.branches[repo.head].base = repo.main
        /\ repo.branches[repo.head].commits = 0

\* ------------------------------------------------------------------ C27
\* create_pull_request returned None (after the commit and the push).
PullRequestNone(f) ==
    \E i \in DOMAIN f.calls :
        f.calls[i].fn = "create_pull_request" /\ f.calls[i].ret = "None"

\* C27: when create_pull_request returned None the run makes the comment
\* call that tells of the pushed branch and the request to create by hand,
\* makes no link comment and no call for the Ready for Review status, returns
\* without raising, and its ticket ends in processed_issues.
C27_PullRequestNone ==
    LET f == wf[PollTask]
    IN  PullRequestNone(f) =>
          /\ Returned(f, "commit_changes", "commit_message", "True")
          /\ Made(f, "push_branch")
          /\ ~MadeWith(f, "create_comment", CommentBody("comment_pr"))
          /\ ~MadeWith(f, "get_status_id_by_name", "Ready for Review")
          /\ ~MadeWith(f, "update_issue_status", "Ready for Review")
          /\ Finished(f) => MadeWith(f, "create_comment", CommentBody("comment_pr_failed"))
          /\ f.pc = "done" => ~f.raised
          /\ Completed => /\ f.issue \in processed_issues
                          /\ f.issue \notin in_progress_issues

\* The loop is past a run whose pull request was not created and whose
\* comment about it was posted.
C27_Witness ==
    /\ Completed
    /\ PullRequestNone(wf[PollTask])
    /\ Returned(wf[PollTask], "create_comment", CommentBody("comment_pr_failed"), "ok")
    /\ wf[PollTask].issue \in processed_issues

\* ------------------------------------------------------------------ C28
\* get_status_id_by_name returned None for the status of this call.
StatusMissing(call) == call.fn = "get_status_id_by_name" /\ call.ret = "None"

\* C28: after get_status_id_by_name returned None no update_issue_status
\* follows and the run goes on as it does after a status that was set: after
\* In Progress with the check of the description and the formatting, after
\* Todo and Ready for Review with the end of the run, with no error caught.
C28_MissingStatus ==
    \A c \in Tasks :
        LET f == wf[c]
            calls == f.calls
        IN  \A i \in DOMAIN calls :
                StatusMissing(calls[i]) =>
                    IF calls[i].arg = "In Progress"
                    THEN /\ f.pc # "update_in_progress"
                         /\ i < Len(calls) =>
                               \/ calls[i + 1].fn = "format_issue_description"
                               \/ /\ IsErrorComment(calls[i + 1])
                                  /\ f.description = ""
                                  /\ f.error = "Issue description is empty"
                    ELSE /\ i = Len(calls)
                         /\ Finished(f)
                         /\ f.error = ""

\* A run in which neither In Progress nor Ready for Review was found went
\* through to the link comment all the same and ended without an error.
C28_Witness ==
    LET f == wf[PollTask]
    IN  /\ Completed
        /\ Returned(f, "get_status_id_by_name", "In Progress", "None")
        /\ Returned(f, "create_comment", CommentBody("comment_pr"), "ok")
        /\ Returned(f, "get_status_id_by_name", "Ready for Review", "None")
        /\ ~Made(f, "update_issue_status")
        /\ f.error = ""
        /\ f.issue \in processed_issues

\* ------------------------------------------------------------------ C29
\* The except handler's own comment raised (the secondary failure).
SecondaryFailure(f) ==
    /\ f.calls # << >>
    /\ IsErrorComment(f.calls[Len(f.calls)])
    /\ f.calls[Len(f.calls)].ret = "raise"

\* What the try block raised (the primary error): the call before the
\* handler's comment if that call raised, else the empty description.
PrimaryError(f) ==
    LET n == Len(f.calls)
    IN  IF n >= 2 /\ f.calls[n - 1].ret = "raise"
        THEN f.calls[n - 1].fn
        ELSE "Issue description is empty"

\* C29: a run in which the handler's comment raised as well has ended by
\* raising into the poll loop, and what it raised is the primary error.
C29_PrimaryErrorReported ==
    LET f == wf[PollTask]
    IN  (f.pc = "done" /\ SecondaryFailure(f)) =>
            /\ f.raised
            /\ f.error = PrimaryError(f)

FailureBodies == {CommentBody("comment_unsuccessful"), CommentBody("comment_error")}

\* C31: after a draft response that is not JSON or lacks a field the run
\* opens no pull request and posts no link comment, and when it has ended it
\* has made a comment call that reports the failure; it does not raise.
C31_MalformedDraft ==
    LET f == wf[PollTask]
    IN  MalformedDraft(f.draft) =>
          /\ ~Made(f, "create_pull_request")
          /\ ~MadeWith(f, "create_comment", CommentBody("comment_pr"))
          /\ Finished(f) =>
                \E i \in DOMAIN f.calls :
                    f.calls[i].fn = "create_comment" /\ f.calls[i].arg \in FailureBodies
          /\ f.pc = "done" => ~f.raised

\* ------------------------------------------------------------------ C32
\* C32: the loop ends in one way only, at its while check reading the flag
\* that stop_polling cleared; a stop that arrives inside a tick or inside the
\* sleep lets both finish first.
C32_StopFlagOnly ==
    [][(poll_pc \notin {"start", "exited"} /\ poll_pc' = "exited") =>
          (poll_pc = "while" /\ ~running)]_vars

\* ------------------------------------------------------------------ C33
\* The loop calls process_issue for the candidate at the head of the list.
Dispatches == poll_pc = "for" /\ poll_pc' = "await"

\* C33: in one lifetime of the process, started with nothing processed, the
\* loop never calls process_issue for an issue whose run it has completed
\* before, whatever lists the tracker returns.
C33_AtMostOnce == [][Dispatches => Head(new_issues).id \notin processed_issues]_vars

\* ------------------------------------------------------------------ C34
\* C34: the loop dispatches the head of the list, only when no run is under
\* way and the gate is free; the end of a run, failed or not, leaves the rest
\* of the list as it is and takes the loop back to its for statement; and the
\* tick ends only when the list is exhausted.
C34_Isolation ==
    [][/\ Dispatches =>
            /\ wf[PollTask].pc \in {"idle", "done"}
            /\ semaphore = 1
            /\ wf'[PollTask].issue = Head(new_issues).id
            /\ new_issues' = Tail(new_issues)
       /\ (poll_pc \in {"await", "remove_in_progress"} /\ poll_pc' # "exited") =>
            /\ new_issues' = new_issues
            /\ poll_pc' \in {"await", "remove_in_progress", "for"}
       /\ (poll_pc = "for" /\ poll_pc' = "sleep") => new_issues = << >>]_vars

\* The loop has completed the run of a second candidate of a tick whose
\* first candidate's run failed on a collaborator error.
C34_Witness ==
    /\ Completed
    /\ wf[PollTask].issue \in last_fetch.kept \cap last_fetch.todo
    /\ \E t \in (failed \cap last_fetch.kept \cap last_fetch.todo) \ {wf[PollTask].issue} :
          t \in processed_issues
    /\ wf[PollTask].issue \in processed_issues

\* ------------------------------------------------------------------ C35
\* C35: a fetch that raises changes neither set nor the state file and starts
\* no run, and the cycle is over; the loop then sleeps and, its flag still
\* set, fetches again. Only a signal ends the process in between.
C35_FetchRaises ==
    [][/\ (poll_pc = "fetch" /\ last_query'.raised) =>
            /\ processed_issues' = processed_issues
            /\ in_progress_issues' = in_progress_issues
            /\ file' = file
            /\ wf' = wf
            /\ wf[PollTask].pc = "idle"
            /\ running'
            /\ poll_pc' = "sleep"
       /\ (last_query.raised /\ poll_pc = "sleep") => poll_pc' \in {"while", "exited"}
       /\ (last_query.raised /\ poll_pc = "while") => poll_pc' \in {"fetch", "exited"}
       /\ (last_query.raised /\ poll_pc \in {"sleep", "while"} /\ poll_pc' # "exited") =>
            /\ processed_issues' = processed_issues
            /\ in_progress_issues' = in_progress_issues
            /\ file' = file
            /\ wf' = wf]_vars

\* The fetch of the last tick raised, with a ticket marked in the file, and
\* the loop is about to fetch again.
C35_Witness ==
    /\ poll_pc = "fetch"
    /\ last_query.raised
    /\ running
    /\ file.exists
    /\ file.in_progress_issues # {}
    /\ in_progress_issues = file.in_progress_issues

\* ------------------------------------------------------------------ C36
\* C36: with no run inside the gate the permit is free, and a permit that is
\* taken is free again later: every run, on whichever path it leaves, gives
\* it back.
C36_GateReleased ==
    /\ []((\A c \in Tasks : ~Executing(wf[c])) => semaphore = 1)
    /\ (semaphore = 0) ~> (semaphore = 1)

\* A run is inside the gate for one ticket after the run for another ticket
\* went through the except handler and left.
C36_Witness ==
    \E c \in Tasks :
        /\ Executing(wf[c])
        /\ Made(wf[c], "get_issue_details")
        /\ wf[c].issue \notin failed
        /\ failed # {}

====
